---- MODULE Spec2Model ----
(***************************************************************************)
(* The logging driver of src/driver.go: the registry of log pairs (the     *)
(* maps logs and idx under the mutex mu) and the three host-facing         *)
(* operations StartLogging, StopLogging and ReadLogs, called concurrently  *)
(* by a bounded number of client threads.  Every operation is cut at the   *)
(* points where another goroutine can interleave: acquiring the mutex, a   *)
(* critical section, each call into a collaborator, the return.  The       *)
(* read-back goroutine that ReadLogs launches touches no field of the      *)
(* driver; it is followed in SpecBridge with its feed, pipe and reader.    *)
(***************************************************************************)
EXTENDS Integers, Sequences, FiniteSets, TLC

\* Bounds of the model.
NumThreads == 2   \* concurrent callers of the driver
MaxPairs == 2     \* logPair objects ever created
MaxBridges == 1   \* read-back goroutines ever launched
MaxEntries == 2   \* entries in the local sink that a read-back replays
MsgCap == 1       \* largest buffer of the watcher's message channel

Threads == 1..NumThreads
Files == {"f1", "f2"}     \* stream identifiers (fifo paths)
Cids == {"c1", "c2"}      \* container ids

VARIABLES
    mu,        \* driver.mu: the thread holding it, 0 when free
    logs,      \* driver.logs: file -> pair, a partial map
    idx,       \* driver.idx: container id -> pair, a partial map
    pairs,     \* the logPair objects in creation order; a pair is its index
    procs,     \* per pair, its message processor: none, running, exited
    bridges,   \* the read-back goroutines launched, each with the pair it reads
    pc,        \* per thread, its position in the operation it runs
    file,      \* per thread, the file argument of its call
    cid,       \* per thread, the ContainerID of its call's logger.Info
    loc,       \* per thread, the sinks and stream StartLogging holds in locals
    lf,        \* per thread, the local lf (0 is nil)
    ok,        \* per thread, the local ok / exists of its map lookup
    err,       \* per thread, the error its call returns ("nil" is none)
    out,       \* per thread, the stream ReadLogs returns ("nil" or "pipe")
    since,     \* history: per file, the pairs registered for it with no StopLogging of it called or running since
    stopped    \* history: per file, a StopLogging of it left its critical section with no StartLogging of it called or running since

\* One read-back goroutine (the func literal of ReadLogs), its watcher, its
\* pipe and the caller that reads the returned stream.
VARIABLES
    store,     \* the entries of the local sink that the feed replays
    fmode,     \* how the feed ends: "close", "error" or "follow"
    fst,       \* the feed: "none", "running" or "done"
    fpos,      \* how many entries of store the feed has sent
    cap,       \* buffer size of watcher.Msg
    msgq,      \* watcher.Msg: the entries buffered in it
    msgClosed, \* watcher.Msg is closed
    errq,      \* watcher.Err: the errors buffered in it
    errClosed, \* watcher.Err is closed
    wcloses,   \* number of calls of watcher.Close
    bpc,       \* the goroutine's position
    bmsg,      \* its local msg (a sequence: empty when unset)
    buf,       \* its local buf, the reused logdriver.LogEntry
    pipe,      \* io.Pipe: the frame being written, the writer's close error, the reader's close
    rd,        \* the frames the caller has read from the returned stream
    rdend,     \* how the caller's reading ended: "none", "EOF", an error, or "closed" by itself
    received,  \* history: the entries the goroutine received from watcher.Msg
    written    \* history: the frames the goroutine handed to the pipe

bvars == <<store, fmode, fst, fpos, cap, msgq, msgClosed, errq, errClosed, wcloses,
           bpc, bmsg, buf, pipe, rd, rdend, received, written>>

dvars == <<mu, logs, idx, pairs, procs, bridges, pc, file, cid, loc, lf, ok, err, out, since, stopped>>

vars == <<mu, logs, idx, pairs, procs, bridges, pc, file, cid, loc, lf, ok, err, out, since, stopped,
          store, fmode, fst, fpos, cap, msgq, msgClosed, errq, errClosed, wcloses,
          bpc, bmsg, buf, pipe, rd, rdend, received, written>>

shared == <<mu, logs, idx, pairs, procs, bridges>>
history == <<since, stopped>>

NoLocals == [jsonl |-> "none", splunkl |-> "none", f |-> "none"]

\* The positions of StartLogging before it has created its pair.
StartBeforePair == {"S_Lock1", "S_Check", "S_Mkdir", "S_NewJson", "S_Validate",
                    "S_NewSplunk", "S_OpenFifo", "S_Lock2", "S_Register"}
StartPcs == StartBeforePair \cup {"S_Go", "S_Ret"}
StopPcs == {"P_Lock", "P_Lookup", "P_Close", "P_Delete", "P_Unlock", "P_Ret"}
ReadBeforeBridge == {"R_Lock", "R_Lookup", "R_Check", "R_Go"}
ReadPcs == ReadBeforeBridge \cup {"R_Ret"}

\* A call of StartLogging / StopLogging for file F is between its call and its return.
StartRunning(F) == \E u \in Threads : pc[u] \in StartPcs /\ file[u] = F
StopRunning(F) == \E u \in Threads : pc[u] \in StopPcs /\ file[u] = F

\* Go's map operations on a partial map.
MapPut(m, k, v) == [x \in DOMAIN m \cup {k} |-> IF x = k THEN v ELSE m[x]]
MapDelete(m, k) == [x \in DOMAIN m \ {k} |-> m[x]]

newDriver ==
    /\ mu = 0
    /\ logs = <<>>
    /\ idx = <<>>
    /\ pairs = <<>>
    /\ procs = <<>>
    /\ bridges = <<>>

\* var buf logdriver.LogEntry: the zero value, also what buf.Reset() leaves.
EmptyEntry == [Line |-> "", Partial |-> FALSE, TimeNano |-> 0, Source |-> ""]

\* r, w := io.Pipe()
NewPipe == [data |-> <<>>, werr |-> "none", rclosed |-> FALSE]

\* No read-back goroutine is being followed.
NoBridgeRun ==
    /\ store = <<>>
    /\ fmode = "close"
    /\ fst = "none"
    /\ fpos = 0
    /\ cap = 0
    /\ msgq = <<>>
    /\ msgClosed = FALSE
    /\ errq = <<>>
    /\ errClosed = FALSE
    /\ wcloses = 0
    /\ bpc = "none"
    /\ bmsg = <<>>
    /\ buf = EmptyEntry
    /\ pipe = NewPipe
    /\ rd = <<>>
    /\ rdend = "none"
    /\ received = <<>>
    /\ written = <<>>

Init ==
    /\ newDriver
    /\ NoBridgeRun
    /\ pc = [t \in Threads |-> "idle"]
    /\ file = [t \in Threads |-> "f1"]
    /\ cid = [t \in Threads |-> "c1"]
    /\ loc = [t \in Threads |-> NoLocals]
    /\ lf = [t \in Threads |-> 0]
    /\ ok = [t \in Threads |-> FALSE]
    /\ err = [t \in Threads |-> "nil"]
    /\ out = [t \in Threads |-> "nil"]
    /\ since = [F \in Files |-> {}]
    /\ stopped = [F \in Files |-> FALSE]

\* A thread leaves its call: the frame's locals are gone.
Idle(t) ==
    /\ pc' = [pc EXCEPT ![t] = "idle"]
    /\ file' = [file EXCEPT ![t] = "f1"]
    /\ cid' = [cid EXCEPT ![t] = "c1"]
    /\ loc' = [loc EXCEPT ![t] = NoLocals]
    /\ lf' = [lf EXCEPT ![t] = 0]
    /\ ok' = [ok EXCEPT ![t] = FALSE]
    /\ err' = [err EXCEPT ![t] = "nil"]
    /\ out' = [out EXCEPT ![t] = "nil"]

Lock(t, next) ==
    /\ mu = 0
    /\ mu' = t
    /\ pc' = [pc EXCEPT ![t] = next]

Fail(t, e) ==
    /\ err' = [err EXCEPT ![t] = e]
    /\ pc' = [pc EXCEPT ![t] = "S_Ret"]

----
\* StartLogging(file, logCtx)

CallStart(t, F, c) ==
    /\ pc[t] = "idle"
    /\ Len(pairs) + Cardinality({u \in Threads : pc[u] \in StartBeforePair}) < MaxPairs
    /\ pc' = [pc EXCEPT ![t] = "S_Lock1"]
    /\ file' = [file EXCEPT ![t] = F]
    /\ cid' = [cid EXCEPT ![t] = c]
    /\ stopped' = [stopped EXCEPT ![F] = FALSE]
    /\ UNCHANGED <<shared, loc, lf, ok, err, out, since>>
    /\ UNCHANGED bvars

S_Lock1(t) ==
    /\ pc[t] = "S_Lock1"
    /\ Lock(t, "S_Check")
    /\ UNCHANGED <<logs, idx, pairs, procs, bridges, file, cid, loc, lf, ok, err, out, history>>
    /\ UNCHANGED bvars

\* Mutant of S_Check: the existence check is missing, the call always goes on.
S_Check_NoExistenceCheck(t) ==
    /\ pc[t] = "S_Check"
    /\ mu' = 0
    /\ pc' = [pc EXCEPT ![t] = "S_Mkdir"]
    /\ UNCHANGED <<logs, idx, pairs, procs, bridges, file, cid, loc, lf, ok, err, out, history>>
    /\ UNCHANGED bvars

\* Mutant of S_Check: the error return does not unlock.
S_Check_ReturnsLocked(t) ==
    /\ pc[t] = "S_Check"
    /\ IF file[t] \in DOMAIN logs
         THEN /\ Fail(t, "AlreadyExists")
              /\ mu' = mu
         ELSE /\ pc' = [pc EXCEPT ![t] = "S_Mkdir"]
              /\ mu' = 0
              /\ UNCHANGED err
    /\ UNCHANGED <<logs, idx, pairs, procs, bridges, file, cid, loc, lf, ok, out, history>>
    /\ UNCHANGED bvars

\* The existence check, and the unlock on both of its branches.
S_Check(t) ==
    /\ pc[t] = "S_Check"
    /\ mu' = 0
    /\ IF file[t] \in DOMAIN logs
         THEN Fail(t, "AlreadyExists")
         ELSE /\ pc' = [pc EXCEPT ![t] = "S_Mkdir"]
              /\ UNCHANGED err
    /\ UNCHANGED <<logs, idx, pairs, procs, bridges, file, cid, loc, lf, ok, out, history>>
    /\ UNCHANGED bvars

S_Mkdir(t) ==
    /\ pc[t] = "S_Mkdir"
    /\ \E success \in BOOLEAN :
         IF success
           THEN /\ pc' = [pc EXCEPT ![t] = "S_NewJson"]
                /\ UNCHANGED err
           ELSE Fail(t, "SetupError")
    /\ UNCHANGED <<shared, file, cid, loc, lf, ok, out, history>>
    /\ UNCHANGED bvars

S_NewJson(t) ==
    /\ pc[t] = "S_NewJson"
    /\ \E success \in BOOLEAN :
         IF success
           THEN /\ loc' = [loc EXCEPT ![t].jsonl = "open"]
                /\ pc' = [pc EXCEPT ![t] = "S_Validate"]
                /\ UNCHANGED err
           ELSE /\ Fail(t, "JsonError")
                /\ UNCHANGED loc
    /\ UNCHANGED <<shared, file, cid, lf, ok, out, history>>
    /\ UNCHANGED bvars

S_Validate(t) ==
    /\ pc[t] = "S_Validate"
    /\ \E success \in BOOLEAN :
         IF success
           THEN /\ pc' = [pc EXCEPT ![t] = "S_NewSplunk"]
                /\ UNCHANGED err
           ELSE Fail(t, "OptError")
    /\ UNCHANGED <<shared, file, cid, loc, lf, ok, out, history>>
    /\ UNCHANGED bvars

S_NewSplunk(t) ==
    /\ pc[t] = "S_NewSplunk"
    /\ \E success \in BOOLEAN :
         IF success
           THEN /\ loc' = [loc EXCEPT ![t].splunkl = "open"]
                /\ pc' = [pc EXCEPT ![t] = "S_OpenFifo"]
                /\ UNCHANGED err
           ELSE /\ Fail(t, "SplunkError")
                /\ UNCHANGED loc
    /\ UNCHANGED <<shared, file, cid, lf, ok, out, history>>
    /\ UNCHANGED bvars

\* Mutant of S_OpenFifo: the pair is put in both maps before the fifo is opened,
\* and a failed open returns without taking it out.
S_OpenFifo_RegistersFirst(t) ==
    /\ pc[t] = "S_OpenFifo"
    /\ \E success \in BOOLEAN :
         IF success
           THEN /\ loc' = [loc EXCEPT ![t].f = "open"]
                /\ pc' = [pc EXCEPT ![t] = "S_Lock2"]
                /\ UNCHANGED <<err, logs, idx, pairs, procs, lf>>
           ELSE /\ Fail(t, "FifoError")
                /\ pairs' = Append(pairs, [file |-> file[t], cid |-> cid[t], jsonl |-> "open",
                                           splunkl |-> "open", stream |-> "none"])
                /\ procs' = Append(procs, "none")
                /\ logs' = MapPut(logs, file[t], Len(pairs) + 1)
                /\ idx' = MapPut(idx, cid[t], Len(pairs) + 1)
                /\ lf' = [lf EXCEPT ![t] = Len(pairs) + 1]
                /\ UNCHANGED loc
    /\ UNCHANGED <<mu, bridges, file, cid, ok, out, history>>
    /\ UNCHANGED bvars

S_OpenFifo(t) ==
    /\ pc[t] = "S_OpenFifo"
    /\ \E success \in BOOLEAN :
         IF success
           THEN /\ loc' = [loc EXCEPT ![t].f = "open"]
                /\ pc' = [pc EXCEPT ![t] = "S_Lock2"]
                /\ UNCHANGED err
           ELSE /\ Fail(t, "FifoError")
                /\ UNCHANGED loc
    /\ UNCHANGED <<shared, file, cid, lf, ok, out, history>>
    /\ UNCHANGED bvars

S_Lock2(t) ==
    /\ pc[t] = "S_Lock2"
    /\ Lock(t, "S_Register")
    /\ UNCHANGED <<logs, idx, pairs, procs, bridges, file, cid, loc, lf, ok, err, out, history>>
    /\ UNCHANGED bvars

\* lf := &logPair{jsonl, splunkl, f, logCtx}: the pair takes over the locals.
NewLogPair(t) ==
    [file |-> file[t], cid |-> cid[t], jsonl |-> loc[t].jsonl,
     splunkl |-> loc[t].splunkl, stream |-> loc[t].f]

\* Mutant of S_Register: an entry of idx that is present is kept, not replaced.
S_Register_KeepsFirstIndex(t) ==
    /\ pc[t] = "S_Register"
    /\ pairs' = Append(pairs, NewLogPair(t))
    /\ procs' = Append(procs, "none")
    /\ lf' = [lf EXCEPT ![t] = Len(pairs) + 1]
    /\ loc' = [loc EXCEPT ![t] = NoLocals]
    /\ logs' = MapPut(logs, file[t], Len(pairs) + 1)
    /\ idx' = IF cid[t] \in DOMAIN idx THEN idx ELSE MapPut(idx, cid[t], Len(pairs) + 1)
    /\ mu' = 0
    /\ pc' = [pc EXCEPT ![t] = "S_Go"]
    /\ since' = [since EXCEPT ![file[t]] =
           IF StopRunning(file[t]) THEN {} ELSE @ \cup {Len(pairs) + 1}]
    /\ UNCHANGED <<bridges, file, cid, ok, err, out, stopped>>
    /\ UNCHANGED bvars

\* The second critical section: create the pair, put it in both maps, unlock.
S_Register(t) ==
    /\ pc[t] = "S_Register"
    /\ pairs' = Append(pairs, NewLogPair(t))
    /\ procs' = Append(procs, "none")
    /\ lf' = [lf EXCEPT ![t] = Len(pairs) + 1]
    /\ loc' = [loc EXCEPT ![t] = NoLocals]
    /\ logs' = MapPut(logs, file[t], Len(pairs) + 1)
    /\ idx' = MapPut(idx, cid[t], Len(pairs) + 1)
    /\ mu' = 0
    /\ pc' = [pc EXCEPT ![t] = "S_Go"]
    /\ since' = [since EXCEPT ![file[t]] =
           IF StopRunning(file[t]) THEN {} ELSE @ \cup {Len(pairs) + 1}]
    /\ UNCHANGED <<bridges, file, cid, ok, err, out, stopped>>
    /\ UNCHANGED bvars

\* go mg.process(lf)
S_Go(t) ==
    /\ pc[t] = "S_Go"
    /\ procs' = [procs EXCEPT ![lf[t]] = "running"]
    /\ pc' = [pc EXCEPT ![t] = "S_Ret"]
    /\ UNCHANGED <<mu, logs, idx, pairs, bridges, file, cid, loc, lf, ok, err, out, history>>
    /\ UNCHANGED bvars

\* StartLogging returns err[t] to its caller.
S_Ret(t) ==
    /\ pc[t] = "S_Ret"
    /\ Idle(t)
    /\ UNCHANGED <<shared, history>>
    /\ UNCHANGED bvars

----
\* StopLogging(file)

CallStop(t, F) ==
    /\ pc[t] = "idle"
    /\ pc' = [pc EXCEPT ![t] = "P_Lock"]
    /\ file' = [file EXCEPT ![t] = F]
    /\ since' = [since EXCEPT ![F] = {}]
    /\ UNCHANGED <<shared, cid, loc, lf, ok, err, out, stopped>>
    /\ UNCHANGED bvars

P_Lock(t) ==
    /\ pc[t] = "P_Lock"
    /\ Lock(t, "P_Lookup")
    /\ UNCHANGED <<logs, idx, pairs, procs, bridges, file, cid, loc, lf, ok, err, out, history>>
    /\ UNCHANGED bvars

\* Mutant of P_Lookup: the mutex is released right after the map is read.
P_Lookup_ReleasesLock(t) ==
    /\ pc[t] = "P_Lookup"
    /\ ok' = [ok EXCEPT ![t] = file[t] \in DOMAIN logs]
    /\ lf' = [lf EXCEPT ![t] = IF file[t] \in DOMAIN logs THEN logs[file[t]] ELSE 0]
    /\ pc' = [pc EXCEPT ![t] = IF file[t] \in DOMAIN logs THEN "P_Close" ELSE "P_Unlock"]
    /\ mu' = 0
    /\ UNCHANGED <<logs, idx, pairs, procs, bridges, file, cid, loc, err, out, history>>
    /\ UNCHANGED bvars

\* lf, ok := d.logs[file]
P_Lookup(t) ==
    /\ pc[t] = "P_Lookup"
    /\ ok' = [ok EXCEPT ![t] = file[t] \in DOMAIN logs]
    /\ lf' = [lf EXCEPT ![t] = IF file[t] \in DOMAIN logs THEN logs[file[t]] ELSE 0]
    /\ pc' = [pc EXCEPT ![t] = IF file[t] \in DOMAIN logs THEN "P_Close" ELSE "P_Unlock"]
    /\ UNCHANGED <<shared, file, cid, loc, err, out, history>>
    /\ UNCHANGED bvars

\* Mutant of P_Close: the close waits until the processor has ended.
P_Close_WaitsForProcessor(t) ==
    /\ pc[t] = "P_Close"
    /\ procs[lf[t]] # "running"
    /\ pairs' = [pairs EXCEPT ![lf[t]].stream = "closed"]
    /\ pc' = [pc EXCEPT ![t] = "P_Delete"]
    /\ UNCHANGED <<mu, logs, idx, procs, bridges, file, cid, loc, lf, ok, err, out, history>>
    /\ UNCHANGED bvars

\* lf.stream.Close()
P_Close(t) ==
    /\ pc[t] = "P_Close"
    /\ pairs' = [pairs EXCEPT ![lf[t]].stream = "closed"]
    /\ pc' = [pc EXCEPT ![t] = "P_Delete"]
    /\ UNCHANGED <<mu, logs, idx, procs, bridges, file, cid, loc, lf, ok, err, out, history>>
    /\ UNCHANGED bvars

\* Mutant of P_Delete: the entry stays in logs.
P_Delete_Skipped(t) ==
    /\ pc[t] = "P_Delete"
    /\ pc' = [pc EXCEPT ![t] = "P_Unlock"]
    /\ UNCHANGED <<shared, file, cid, loc, lf, ok, err, out, history>>
    /\ UNCHANGED bvars

\* Mutant of P_Delete: the whole map is emptied.
P_Delete_ClearsAll(t) ==
    /\ pc[t] = "P_Delete"
    /\ logs' = <<>>
    /\ pc' = [pc EXCEPT ![t] = "P_Unlock"]
    /\ UNCHANGED <<mu, idx, pairs, procs, bridges, file, cid, loc, lf, ok, err, out, history>>
    /\ UNCHANGED bvars

\* delete(d.logs, file)
P_Delete(t) ==
    /\ pc[t] = "P_Delete"
    /\ logs' = MapDelete(logs, file[t])
    /\ pc' = [pc EXCEPT ![t] = "P_Unlock"]
    /\ UNCHANGED <<mu, idx, pairs, procs, bridges, file, cid, loc, lf, ok, err, out, history>>
    /\ UNCHANGED bvars

P_Unlock(t) ==
    /\ pc[t] = "P_Unlock"
    /\ mu' = 0
    /\ pc' = [pc EXCEPT ![t] = "P_Ret"]
    /\ stopped' = [stopped EXCEPT ![file[t]] = ~StartRunning(file[t])]
    /\ UNCHANGED <<logs, idx, pairs, procs, bridges, file, cid, loc, lf, ok, err, out, since>>
    /\ UNCHANGED bvars

\* return nil
P_Ret(t) ==
    /\ pc[t] = "P_Ret"
    /\ Idle(t)
    /\ UNCHANGED <<shared, history>>
    /\ UNCHANGED bvars

----
\* ReadLogs(info, config)

CallRead(t, c) ==
    /\ pc[t] = "idle"
    /\ Len(bridges) + Cardinality({u \in Threads : pc[u] \in ReadBeforeBridge}) < MaxBridges
    /\ pc' = [pc EXCEPT ![t] = "R_Lock"]
    /\ cid' = [cid EXCEPT ![t] = c]
    /\ UNCHANGED <<shared, file, loc, lf, ok, err, out, history>>
    /\ UNCHANGED bvars

R_Lock(t) ==
    /\ pc[t] = "R_Lock"
    /\ Lock(t, "R_Lookup")
    /\ UNCHANGED <<logs, idx, pairs, procs, bridges, file, cid, loc, lf, ok, err, out, history>>
    /\ UNCHANGED bvars

\* lf, exists := d.idx[info.ContainerID], and the unlock
R_Lookup(t) ==
    /\ pc[t] = "R_Lookup"
    /\ ok' = [ok EXCEPT ![t] = cid[t] \in DOMAIN idx]
    /\ lf' = [lf EXCEPT ![t] = IF cid[t] \in DOMAIN idx THEN idx[cid[t]] ELSE 0]
    /\ mu' = 0
    /\ pc' = [pc EXCEPT ![t] = "R_Check"]
    /\ UNCHANGED <<logs, idx, pairs, procs, bridges, file, cid, loc, err, out, history>>
    /\ UNCHANGED bvars

\* Mutant of R_Check: the test of exists is missing.
R_Check_IgnoresExists(t) ==
    /\ pc[t] = "R_Check"
    /\ pc' = [pc EXCEPT ![t] = "R_Go"]
    /\ UNCHANGED <<shared, file, cid, loc, lf, ok, err, out, history>>
    /\ UNCHANGED bvars

\* if !exists { return nil, error }
R_Check(t) ==
    /\ pc[t] = "R_Check"
    /\ IF ok[t]
         THEN /\ pc' = [pc EXCEPT ![t] = "R_Go"]
              /\ UNCHANGED err
         ELSE /\ err' = [err EXCEPT ![t] = "NotFound"]
              /\ pc' = [pc EXCEPT ![t] = "R_Ret"]
    /\ UNCHANGED <<shared, file, cid, loc, lf, ok, out, history>>
    /\ UNCHANGED bvars

\* io.Pipe(), the LogReader assertion (the jsonfilelog logger of line 79 is a
\* LogReader), and the go statement of the read-back goroutine over lf.jsonl.
R_Go(t) ==
    /\ pc[t] = "R_Go"
    /\ bridges' = Append(bridges, [lf |-> lf[t]])
    /\ out' = [out EXCEPT ![t] = "pipe"]
    /\ pc' = [pc EXCEPT ![t] = "R_Ret"]
    /\ UNCHANGED <<mu, logs, idx, pairs, procs, file, cid, loc, lf, ok, err, history>>
    /\ UNCHANGED bvars

\* ReadLogs returns (out[t], err[t]).
R_Ret(t) ==
    /\ pc[t] = "R_Ret"
    /\ Idle(t)
    /\ UNCHANGED <<shared, history>>
    /\ UNCHANGED bvars

----
\* The message processor of a pair: its read of the input stream ends when
\* the stream has been closed, and the processor exits.
process(p) ==
    /\ procs[p] = "running"
    /\ pairs[p].stream = "closed"
    /\ procs' = [procs EXCEPT ![p] = "exited"]
    /\ UNCHANGED <<mu, logs, idx, pairs, bridges, pc, file, cid, loc, lf, ok, err, out, history>>
    /\ UNCHANGED bvars

StartLogging(t) ==
    \/ \E F \in Files, c \in Cids : CallStart(t, F, c)
    \/ S_Lock1(t)
    \/ S_Check(t)
    \/ S_Mkdir(t)
    \/ S_NewJson(t)
    \/ S_Validate(t)
    \/ S_NewSplunk(t)
    \/ S_OpenFifo(t)
    \/ S_Lock2(t)
    \/ S_Register(t)
    \/ S_Go(t)
    \/ S_Ret(t)

StopLogging(t) ==
    \/ \E F \in Files : CallStop(t, F)
    \/ P_Lock(t)
    \/ P_Lookup(t)
    \/ P_Close(t)
    \/ P_Delete(t)
    \/ P_Unlock(t)
    \/ P_Ret(t)

ReadLogs(t) ==
    \/ \E c \in Cids : CallRead(t, c)
    \/ R_Lock(t)
    \/ R_Lookup(t)
    \/ R_Check(t)
    \/ R_Go(t)
    \/ R_Ret(t)

Next ==
    \/ \E t \in Threads : StartLogging(t)
    \/ \E t \in Threads : StopLogging(t)
    \/ \E t \in Threads : ReadLogs(t)
    \/ \E p \in 1..Len(pairs) : process(p)

Spec == Init /\ [][Next]_vars

----
\* The read-back goroutine launched by ReadLogs (the func literal), followed
\* for one launch from the state in which ReadLogs has returned the read side
\* of the pipe.  The goroutine touches none of the driver's fields, so it is
\* followed in a specification of its own, SpecBridge, with the feed of the
\* local sink on one side and the caller that reads the stream on the other.

\* logger.Message values held by the local sink: Timestamp is a time.Time,
\* kept as seconds and nanoseconds.
Msgs == {
    [Line |-> "a", Partial |-> FALSE, Timestamp |-> [sec |-> 1, nsec |-> 5], Source |-> "stdout"],
    [Line |-> "b", Partial |-> TRUE, Timestamp |-> [sec |-> 2, nsec |-> 0], Source |-> "stderr"],
    [Line |-> "", Partial |-> FALSE, Timestamp |-> [sec |-> 0, nsec |-> 0], Source |-> ""] }

\* The error a feed sends on watcher.Err.
FeedErr == "E"
\* io.ErrClosedPipe, the error of a write after the read side was closed.
ErrClosedPipe == "ErrClosedPipe"

RECURSIVE SeqsUpTo(_, _)
\* The sequences over S of length at most n.
SeqsUpTo(S, n) ==
    IF n = 0 THEN {<<>>}
    ELSE LET shorter == SeqsUpTo(S, n - 1)
         IN  shorter \cup {Append(s, x) : s \in shorter, x \in S}

\* time.Time.UnixNano()
UnixNano(ts) == ts.sec * 1000000000 + ts.nsec

\* Mutant of SetFields: buf.Partial is not assigned.
SetFields_KeepsPartial(b, m) ==
    [b EXCEPT !.Line = m.Line, !.TimeNano = UnixNano(m.Timestamp), !.Source = m.Source]

\* The four assignments buf.Line, buf.Partial, buf.TimeNano, buf.Source.
SetFields(b, m) ==
    [b EXCEPT !.Line = m.Line, !.Partial = m.Partial,
              !.TimeNano = UnixNano(m.Timestamp), !.Source = m.Source]

\* The entry a correct conversion of m yields.
Converted(m) ==
    [Line |-> m.Line, Partial |-> m.Partial, TimeNano |-> UnixNano(m.Timestamp), Source |-> m.Source]

\* The fields of LogEntry by protobuf tag: source = 1, time_nano = 2,
\* line = 3, partial = 4.
FieldOf(e, tag) ==
    CASE tag = 1 -> e.Source
      [] tag = 2 -> e.TimeNano
      [] tag = 3 -> e.Line
      [] tag = 4 -> e.Partial

\* enc.WriteMsg marshals the entry: a field holding its zero value is left
\* out of the frame; the uint32 length prefix delimits the frame.
Marshal(e) ==
    LET present == {tag \in 1..4 : FieldOf(e, tag) # FieldOf(EmptyEntry, tag)}
    IN  [tag \in present |-> FieldOf(e, tag)]

\* What a reader decodes from a frame: absent fields take their zero value.
Unmarshal(fr) ==
    [Line |-> IF 3 \in DOMAIN fr THEN fr[3] ELSE "",
     Partial |-> IF 4 \in DOMAIN fr THEN fr[4] ELSE FALSE,
     TimeNano |-> IF 2 \in DOMAIN fr THEN fr[2] ELSE 0,
     Source |-> IF 1 \in DOMAIN fr THEN fr[1] ELSE ""]

\* w.CloseWithError(e) and w.Close() (e = "nil"): the first close decides
\* what the reader sees, a nil error reads as io.EOF.
CloseWithError(p, e) ==
    [p EXCEPT !.werr = IF @ = "none" THEN (IF e = "nil" THEN "EOF" ELSE e) ELSE @]

\* The state of the driver when ReadLogs has returned the stream of the one
\* registered pair: StartLogging("f1", c1) and ReadLogs(c1) have returned.
ReadReturned ==
    /\ mu = 0
    /\ pairs = <<[file |-> "f1", cid |-> "c1", jsonl |-> "open", splunkl |-> "open", stream |-> "open"]>>
    /\ logs = MapPut(<<>>, "f1", 1)
    /\ idx = MapPut(<<>>, "c1", 1)
    /\ procs = <<"running">>
    /\ bridges = <<[lf |-> 1]>>
    /\ pc = [t \in Threads |-> "idle"]
    /\ file = [t \in Threads |-> "f1"]
    /\ cid = [t \in Threads |-> "c1"]
    /\ loc = [t \in Threads |-> NoLocals]
    /\ lf = [t \in Threads |-> 0]
    /\ ok = [t \in Threads |-> FALSE]
    /\ err = [t \in Threads |-> "nil"]
    /\ out = [t \in Threads |-> "nil"]
    /\ since = [F \in Files |-> IF F = "f1" THEN {1} ELSE {}]
    /\ stopped = [F \in Files |-> FALSE]

\* go func() {...}() has been launched and has not run yet.
InitB ==
    /\ ReadReturned
    /\ store \in SeqsUpTo(Msgs, MaxEntries)
    /\ fmode \in {"close", "error", "follow"}
    /\ cap \in 0..MsgCap
    /\ fst = "none"
    /\ fpos = 0
    /\ msgq = <<>>
    /\ msgClosed = FALSE
    /\ errq = <<>>
    /\ errClosed = FALSE
    /\ wcloses = 0
    /\ bpc = "start"
    /\ bmsg = <<>>
    /\ buf = EmptyEntry
    /\ pipe = NewPipe
    /\ rd = <<>>
    /\ rdend = "none"
    /\ received = <<>>
    /\ written = <<>>

feedvars == <<store, fmode, fst, fpos, cap, msgq, msgClosed, errq, errClosed>>
readervars == <<rd, rdend>>

\* watcher := lr.ReadLogs(config); enc := ...; the two defers; var buf.
B_Subscribe ==
    /\ bpc = "start"
    /\ fst' = "running"
    /\ buf' = EmptyEntry
    /\ bpc' = "select"
    /\ UNCHANGED <<store, fmode, fpos, cap, msgq, msgClosed, errq, errClosed, wcloses,
                   bmsg, pipe, rd, rdend, received, written>>
    /\ UNCHANGED dvars

\* The feed can hand its next entry over at this moment.
FeedCanSend == fst = "running" /\ fpos < Len(store) /\ wcloses = 0

\* The feed puts its next entry into the buffer of watcher.Msg.
F_Send ==
    /\ FeedCanSend
    /\ Len(msgq) < cap
    /\ msgq' = Append(msgq, store[fpos + 1])
    /\ fpos' = fpos + 1
    /\ UNCHANGED <<store, fmode, fst, cap, msgClosed, errq, errClosed, wcloses,
                   bpc, bmsg, buf, pipe, rd, rdend, received, written>>
    /\ UNCHANGED dvars

\* The feed completes without an error: it closes both channels.
F_Complete ==
    /\ fst = "running"
    /\ fmode = "close"
    /\ fpos = Len(store)
    /\ fst' = "done"
    /\ msgClosed' = TRUE
    /\ errClosed' = TRUE
    /\ UNCHANGED <<store, fmode, fpos, cap, msgq, errq, wcloses,
                   bpc, bmsg, buf, pipe, rd, rdend, received, written>>
    /\ UNCHANGED dvars

\* The feed fails, after any number of entries: it sends the error on
\* watcher.Err (buffered) and ends, closing both channels.
F_Error ==
    /\ fst = "running"
    /\ fmode = "error"
    /\ fst' = "done"
    /\ errq' = <<FeedErr>>
    /\ msgClosed' = TRUE
    /\ errClosed' = TRUE
    /\ UNCHANGED <<store, fmode, fpos, cap, msgq, wcloses,
                   bpc, bmsg, buf, pipe, rd, rdend, received, written>>
    /\ UNCHANGED dvars

\* case msg, ok := <-watcher.Msg with ok: a buffered entry, or with an
\* unbuffered channel the entry the feed is handing over.
B_RecvMsg ==
    /\ bpc = "select"
    /\ \/ /\ msgq # <<>>
          /\ bmsg' = <<Head(msgq)>>
          /\ msgq' = Tail(msgq)
          /\ fpos' = fpos
       \/ /\ msgq = <<>>
          /\ cap = 0
          /\ FeedCanSend
          /\ bmsg' = <<store[fpos + 1]>>
          /\ msgq' = msgq
          /\ fpos' = fpos + 1
    /\ received' = Append(received, bmsg'[1])
    /\ bpc' = "convert"
    /\ UNCHANGED <<store, fmode, fst, cap, msgClosed, errq, errClosed, wcloses,
                   buf, pipe, rd, rdend, written>>
    /\ UNCHANGED dvars

\* case msg, ok := <-watcher.Msg with !ok: w.Close(); return
B_MsgClosed ==
    /\ bpc = "select"
    /\ msgq = <<>>
    /\ msgClosed
    /\ pipe' = CloseWithError(pipe, "nil")
    /\ bpc' = "deferWatcher"
    /\ UNCHANGED <<feedvars, wcloses, bmsg, buf, readervars, received, written>>
    /\ UNCHANGED dvars

\* Mutant of B_RecvErr: the pipe is closed with w.Close(), the error dropped.
B_RecvErr_ClosesClean ==
    /\ bpc = "select"
    /\ \/ /\ errq # <<>>
          /\ errq' = Tail(errq)
       \/ /\ errq = <<>>
          /\ errClosed
          /\ errq' = errq
    /\ pipe' = CloseWithError(pipe, "nil")
    /\ bpc' = "deferWatcher"
    /\ UNCHANGED <<store, fmode, fst, fpos, cap, msgq, msgClosed, errClosed, wcloses,
                   bmsg, buf, readervars, received, written>>
    /\ UNCHANGED dvars

\* case err := <-watcher.Err: a buffered error, or nil from the closed
\* channel; w.CloseWithError(err); return
B_RecvErr ==
    /\ bpc = "select"
    /\ \/ /\ errq # <<>>
          /\ pipe' = CloseWithError(pipe, Head(errq))
          /\ errq' = Tail(errq)
       \/ /\ errq = <<>>
          /\ errClosed
          /\ pipe' = CloseWithError(pipe, "nil")
          /\ errq' = errq
    /\ bpc' = "deferWatcher"
    /\ UNCHANGED <<store, fmode, fst, fpos, cap, msgq, msgClosed, errClosed, wcloses,
                   bmsg, buf, readervars, received, written>>
    /\ UNCHANGED dvars

\* buf.Line = msg.Line ... buf.Source = msg.Source
B_Convert ==
    /\ bpc = "convert"
    /\ buf' = SetFields(buf, bmsg[1])
    /\ bpc' = "write"
    /\ UNCHANGED <<feedvars, wcloses, bmsg, pipe, readervars, received, written>>
    /\ UNCHANGED dvars

\* enc.WriteMsg(&buf) reaches w.Write: the frame waits in the pipe for the
\* reader, or the read side is closed already and the write fails at once:
\* w.CloseWithError(err); return
B_WriteMsg ==
    /\ bpc = "write"
    /\ IF pipe.rclosed
       THEN /\ pipe' = CloseWithError(pipe, ErrClosedPipe)
            /\ bpc' = "deferWatcher"
            /\ written' = written
       ELSE /\ pipe' = [pipe EXCEPT !.data = <<Marshal(buf)>>]
            /\ bpc' = "writing"
            /\ written' = Append(written, Marshal(buf))
    /\ UNCHANGED <<feedvars, wcloses, bmsg, buf, readervars, received>>
    /\ UNCHANGED dvars

\* w.Write returns: the reader has taken the frame, or it has closed its
\* side while the frame waited (w.CloseWithError(err); return).
B_WriteReturns ==
    /\ bpc = "writing"
    /\ \/ /\ pipe.data = <<>>
          /\ pipe' = pipe
          /\ bpc' = "reset"
       \/ /\ pipe.data # <<>>
          /\ pipe.rclosed
          /\ pipe' = CloseWithError([pipe EXCEPT !.data = <<>>], ErrClosedPipe)
          /\ bpc' = "deferWatcher"
    /\ UNCHANGED <<feedvars, wcloses, bmsg, buf, readervars, received, written>>
    /\ UNCHANGED dvars

\* buf.Reset(), and the loop goes round.
B_Reset ==
    /\ bpc = "reset"
    /\ buf' = EmptyEntry
    /\ bmsg' = <<>>
    /\ bpc' = "select"
    /\ UNCHANGED <<feedvars, wcloses, pipe, readervars, received, written>>
    /\ UNCHANGED dvars

\* Mutant of B_DeferWatcher: the return runs no watcher.Close().
B_DeferWatcher_NoClose ==
    /\ bpc = "deferWatcher"
    /\ bpc' = "deferEnc"
    /\ UNCHANGED <<feedvars, wcloses, bmsg, buf, pipe, readervars, received, written>>
    /\ UNCHANGED dvars

\* On return, the deferred watcher.Close() (deferred last, run first).
B_DeferWatcher ==
    /\ bpc = "deferWatcher"
    /\ wcloses' = wcloses + 1
    /\ bpc' = "deferEnc"
    /\ UNCHANGED <<feedvars, bmsg, buf, pipe, readervars, received, written>>
    /\ UNCHANGED dvars

\* Then the deferred enc.Close(), which closes w; the goroutine ends.
B_DeferEnc ==
    /\ bpc = "deferEnc"
    /\ pipe' = CloseWithError(pipe, "nil")
    /\ bpc' = "done"
    /\ UNCHANGED <<feedvars, wcloses, bmsg, buf, readervars, received, written>>
    /\ UNCHANGED dvars

\* The caller reads the returned stream: the waiting frame, or the close
\* error of the write side once no frame waits.
Rd_Read ==
    /\ rdend = "none"
    /\ ~pipe.rclosed
    /\ IF pipe.data # <<>>
       THEN /\ rd' = Append(rd, pipe.data[1])
            /\ pipe' = [pipe EXCEPT !.data = <<>>]
            /\ rdend' = rdend
       ELSE /\ pipe.werr # "none"
            /\ rdend' = pipe.werr
            /\ UNCHANGED <<rd, pipe>>
    /\ UNCHANGED <<feedvars, wcloses, bpc, bmsg, buf, received, written>>
    /\ UNCHANGED dvars

\* The caller closes the read side.
Rd_Close ==
    /\ ~pipe.rclosed
    /\ pipe' = [pipe EXCEPT !.rclosed = TRUE]
    /\ rdend' = IF rdend = "none" THEN "closed" ELSE rdend
    /\ UNCHANGED <<feedvars, wcloses, bpc, bmsg, buf, rd, received, written>>
    /\ UNCHANGED dvars

Bridge ==
    \/ B_Subscribe
    \/ B_RecvMsg
    \/ B_MsgClosed
    \/ B_RecvErr
    \/ B_Convert
    \/ B_WriteMsg
    \/ B_WriteReturns
    \/ B_Reset
    \/ B_DeferWatcher
    \/ B_DeferEnc

Feed ==
    \/ F_Send
    \/ F_Complete
    \/ F_Error

Reader ==
    \/ Rd_Read
    \/ Rd_Close

NextB ==
    \/ Bridge
    \/ Feed
    \/ Reader

SpecBridge == InitB /\ [][NextB]_vars

----
\* Vocabulary of the properties.

Range(m) == {m[x] : x \in DOMAIN m}
PairIds == 1..Len(pairs)
\* Thread t takes the step.
Moves(t) == pc'[t] # pc[t]
\* The StartLogging call that created pair p has returned (with success).
Returned(p) == ~ \E t \in Threads : pc[t] \in {"S_Go", "S_Ret"} /\ lf[t] = p
IsOpen(p) == pairs[p].stream = "open"
\* The newest pair created for container id c, 0 when there is none.
Newest(c) ==
    LET ps == {p \in PairIds : pairs[p].cid = c}
    IN  IF ps = {} THEN 0 ELSE CHOOSE p \in ps : \A q \in ps : q <= p
OnlyThread(t) == \A u \in Threads \ {t} : pc[u] = "idle"

----
\* C1. Duplicate start: when a pair has been registered for file F and no
\* StopLogging(F) has been called or was running since, the existence check of
\* a StartLogging(F) fails with "already exists"; the call goes straight to its
\* return, holds no sink and no stream, created no pair, and none of its steps
\* changes logs, idx, a pair or a processor.
C1_DuplicateStart ==
    /\ [][\A t \in Threads :
            (pc[t] = "S_Check" /\ Moves(t) /\ since[file[t]] # {}) =>
                /\ err'[t] = "AlreadyExists"
                /\ pc'[t] = "S_Ret"
                /\ UNCHANGED <<logs, idx, pairs, procs>>]_vars
    /\ [][\A t \in Threads :
            (pc[t] = "S_Ret" /\ err[t] = "AlreadyExists" /\ Moves(t)) =>
                /\ lf[t] = 0
                /\ loc[t] = NoLocals
                /\ pc'[t] = "idle"
                /\ UNCHANGED <<logs, idx, pairs, procs>>]_vars

\* A second StartLogging(F), called alone after the first returned, is about to
\* return "already exists".
C1_Witness ==
    \E t \in Threads :
        /\ pc[t] = "S_Ret"
        /\ err[t] = "AlreadyExists"
        /\ OnlyThread(t)
        /\ since[file[t]] # {}
        /\ file[t] \in DOMAIN logs

\* C2. Registration is atomic with the existence check: of the StartLogging(F)
\* calls with no StopLogging(F) called in between at most one registers a pair
\* (and returns success) and at most one processor is launched for F, and an
\* entry logs[F] that is present is never replaced by another pair.
C2_AtomicRegistration ==
    /\ [](\A F \in Files : Cardinality(since[F]) <= 1)
    /\ [](\A F \in Files : Cardinality({p \in since[F] : procs[p] # "none"}) <= 1)
    /\ [][\A F \in DOMAIN logs : F \in DOMAIN logs' => logs'[F] = logs[F]]_vars

\* C3. Registry invariant, read when nobody is inside a critical section: a
\* pair is an entry of logs if and only if its input stream is open (every pair
\* was created by a StartLogging that went on to succeed; only StopLogging
\* closes a stream).
C3_RegistryInvariant ==
    mu = 0 => \A p \in PairIds : (p \in Range(logs)) <=> IsOpen(p)

\* C4. Visibility after start: a pair whose StartLogging has returned and whose
\* stream no StopLogging has closed yet is the entry of logs for its file (so
\* the next StopLogging of that file finds and closes this very stream), and
\* its container id has an entry in idx (so ReadLogs finds a pair).
C4_VisibleAfterStart ==
    \A p \in PairIds :
        (Returned(p) /\ IsOpen(p)) =>
            /\ pairs[p].file \in DOMAIN logs
            /\ logs[pairs[p].file] = p
            /\ pairs[p].cid \in DOMAIN idx

\* C5. StopLogging is idempotent and total: it always returns nil; and when a
\* StopLogging(F) has left its critical section and no StartLogging(F) has been
\* called or was running since, another StopLogging(F) finds no pair, skips the
\* Close and the delete, and changes neither map and no stream.
C5_StopIdempotent ==
    /\ [](\A t \in Threads : pc[t] = "P_Ret" => err[t] = "nil")
    /\ [][\A t \in Threads :
            (pc[t] = "P_Lookup" /\ Moves(t) /\ stopped[file[t]]) =>
                /\ ~ok'[t]
                /\ pc'[t] = "P_Unlock"
                /\ UNCHANGED <<logs, idx, pairs>>]_vars
    /\ [][\A t \in Threads :
            (pc[t] \in {"P_Lock", "P_Unlock", "P_Ret"} /\ Moves(t)) =>
                UNCHANGED <<logs, idx, pairs>>]_vars

\* A second StopLogging(F) of a file that was started and stopped before has
\* found nothing and is about to unlock.
C5_Witness ==
    \E t \in Threads :
        /\ pc[t] = "P_Unlock"
        /\ ~ok[t]
        /\ stopped[file[t]]
        /\ OnlyThread(t)
        /\ \E p \in PairIds : pairs[p].file = file[t] /\ ~IsOpen(p)

\* C6. Source-index clearing: when StopLogging has unregistered pair p, idx no
\* longer maps p's container id to p itself; hence an entry of idx refers to a
\* closed pair only while the StopLogging that closed it is still running, and
\* ReadLogs of a source whose only stream was stopped finds nothing.
C6_IndexCleared ==
    /\ \A t \in Threads :
          (pc[t] = "P_Ret" /\ ok[t]) =>
              ~(pairs[lf[t]].cid \in DOMAIN idx /\ idx[pairs[lf[t]].cid] = lf[t])
    /\ \A c \in DOMAIN idx :
          ~IsOpen(idx[c]) => StopRunning(pairs[idx[c]].file)

\* C7. ReadLogs of a container id that has no entry in idx: the lookup finds
\* nothing, the call returns the not-found error with a nil stream, and none of
\* its steps launches a read-back goroutine or changes logs or idx.
C7_ReadNotFound ==
    /\ [][\A t \in Threads :
            (pc[t] = "R_Lookup" /\ Moves(t) /\ cid[t] \notin DOMAIN idx) =>
                /\ ~ok'[t]
                /\ lf'[t] = 0
                /\ UNCHANGED <<logs, idx, bridges>>]_vars
    /\ [][\A t \in Threads :
            (pc[t] = "R_Check" /\ Moves(t) /\ ~ok[t]) =>
                /\ err'[t] = "NotFound"
                /\ out'[t] = "nil"
                /\ pc'[t] = "R_Ret"
                /\ UNCHANGED <<logs, idx, bridges>>]_vars
    /\ [][\A t \in Threads :
            (pc[t] = "R_Ret" /\ Moves(t) /\ err[t] = "NotFound") =>
                /\ out[t] = "nil"
                /\ UNCHANGED <<logs, idx, bridges>>]_vars

\* ReadLogs of an unknown container id is about to return not-found while
\* another container id is registered.
C7_Witness ==
    \E t \in Threads :
        /\ pc[t] = "R_Ret"
        /\ err[t] = "NotFound"
        /\ cid[t] \notin DOMAIN idx
        /\ DOMAIN idx # {}

\* C8. No partial registration on a failed start: an error is returned only
\* from the steps before the second critical section; none of those steps
\* changes logs, idx, a pair or a processor; and a StartLogging that is
\* returning an error has created no pair (so neither map holds one of its,
\* and no processor was launched for it).
FailablePcs == {"S_Lock1", "S_Check", "S_Mkdir", "S_NewJson", "S_Validate",
                "S_NewSplunk", "S_OpenFifo"}

C8_NoPartialRegistration ==
    /\ [](\A t \in Threads :
            (pc[t] = "S_Ret" /\ err[t] # "nil") =>
                /\ lf[t] = 0
                /\ lf[t] \notin Range(logs) \cup Range(idx))
    /\ [][\A t \in Threads :
            (pc[t] \in FailablePcs \cup {"S_Ret"} /\ Moves(t)) =>
                UNCHANGED <<logs, idx, pairs, procs>>]_vars
    /\ [][\A t \in Threads :
            (pc[t] \in StartPcs /\ err[t] = "nil" /\ err'[t] # "nil") =>
                (pc[t] \in FailablePcs /\ pc'[t] = "S_Ret")]_vars

\* A StartLogging fails at the fifo open, its last failure point, while the
\* registry holds a pair of an earlier call.
C8_Witness ==
    \E t \in Threads :
        /\ pc[t] = "S_Ret"
        /\ err[t] = "FifoError"
        /\ DOMAIN logs # {}
        /\ DOMAIN idx # {}

\* C9. Resource release on a failed start: a StartLogging that is returning an
\* error holds no open sink and no open stream.
C9_ReleaseOnFailure ==
    \A t \in Threads :
        (pc[t] = "S_Ret" /\ err[t] # "nil") =>
            /\ loc[t].jsonl # "open"
            /\ loc[t].splunkl # "open"
            /\ loc[t].f # "open"

----
\* The read-back goroutine (SpecBridge).

\* s is a prefix of t.
IsPrefix(s, t) == Len(s) <= Len(t) /\ \A i \in 1..Len(s) : s[i] = t[i]

\* C11: at every moment the frames handed to the pipe are, in order and one
\* for one, the entries received from watcher.Msg so far (all of them, or
\* all but the one being converted), each frame decoding to the line,
\* partial flag, timestamp in nanoseconds and source of its entry; the
\* frames the caller has read are a prefix of the frames handed over.
C11_FifoOrder ==
    /\ Len(written) <= Len(received)
    /\ \A i \in 1..Len(written) : Unmarshal(written[i]) = Converted(received[i])
    /\ IsPrefix(rd, written)
    /\ IsPrefix(received, store)

\* Two different entries have been received, written and read.
C11_Witness ==
    /\ Len(rd) = 2
    /\ rd = written
    /\ rd[1] # rd[2]
    /\ received[1].Partial # received[2].Partial

\* The frames fs decode, in order, to the conversions of the entries ms.
FramesOf(fs, ms) ==
    /\ Len(fs) = Len(ms)
    /\ \A i \in 1..Len(fs) : Unmarshal(fs[i]) = Converted(ms[i])

\* C12: when the feed delivers every entry of the sink and then completes
\* without an error, closing both channels, a caller that reads the stream
\* to its clean end has read exactly those entries, in order.
C12_CompleteOnCleanClose ==
    (fmode = "close" /\ fst = "done" /\ rdend = "EOF") => FramesOf(rd, store)

\* The goroutine has left its loop.
BridgeReturning == bpc \in {"deferWatcher", "deferEnc", "done"}

\* The goroutine takes the error e from watcher.Err in this step.
TakesErr(e) ==
    /\ bpc = "select"
    /\ bpc' = "deferWatcher"
    /\ errq # <<>>
    /\ errq' = Tail(errq)
    /\ Head(errq) = e

C13_ErrorState ==
    /\ pipe.werr = FeedErr => BridgeReturning /\ pipe.data = <<>>
    /\ rdend = FeedErr => rd = written

C13_ErrorStep ==
    /\ TakesErr(FeedErr) => pipe'.werr = FeedErr
    /\ pipe.werr = FeedErr => pipe'.werr = FeedErr /\ written' = written
    /\ (pipe.werr = FeedErr /\ rdend = "none" /\ rdend' \notin {"none", "closed"})
           => rdend' = FeedErr /\ rd' = rd

\* C13: when the goroutine receives an error E from watcher.Err, the pipe is
\* closed with E and stays so through the deferred watcher.Close and
\* enc.Close; no frame is written any more, and the read that follows the
\* frames already written fails with exactly E.
C13_ErrorPropagation == []C13_ErrorState /\ [][C13_ErrorStep]_vars

\* After the deferred closes have run, the caller has read the one frame
\* written and then the error E.
C13_Witness ==
    /\ bpc = "done"
    /\ wcloses = 1
    /\ Len(written) = 1
    /\ rd = written
    /\ rdend = FeedErr

C14_ReleaseState ==
    /\ wcloses <= 1
    /\ bpc \in {"deferEnc", "done"} <=> wcloses = 1
    /\ bpc = "start" <=> fst = "none"

\* Whichever way the goroutine leaves its loop (watcher.Msg closed, an error
\* or nil from watcher.Err, a failed write), it goes through the deferred
\* watcher.Close().
C14_ReleaseStep ==
    /\ (~BridgeReturning /\ BridgeReturning') => bpc' = "deferWatcher" /\ wcloses' = 0
    /\ bpc' = "done" => bpc \in {"deferEnc", "done"}

\* C14: the goroutine opens one subscription and calls watcher.Close()
\* exactly once on each of its exit paths: not before it leaves the loop, once
\* when it returns, never again.
C14_SubscriptionRelease == []C14_ReleaseState /\ [][C14_ReleaseStep]_vars

\* The goroutine has ended on a write that failed because the caller closed
\* the read side, and has closed its watcher.
C14_Witness ==
    /\ bpc = "done"
    /\ wcloses = 1
    /\ pipe.rclosed
    /\ pipe.werr = ErrClosedPipe

\* The other exit paths, ended: a closed channel of the completed feed, an
\* error from the feed.
C14_WitnessCleanEnd == bpc = "done" /\ wcloses = 1 /\ pipe.werr = "EOF" /\ fmode = "close"
C14_WitnessFeedErr == bpc = "done" /\ wcloses = 1 /\ pipe.werr = FeedErr

\* The goroutine has ended and released its subscription.
BridgeEnded == bpc = "done" /\ wcloses = 1

\* Once the caller has closed the read side, the goroutine has ended or
\* something can still happen that leads it there: it, or the feed it waits
\* for, has a step to take.
C15_NotStuck == pipe.rclosed => (BridgeEnded \/ ENABLED (Bridge \/ Feed))

\* With the read side closed, no step changes the sink's entries or the
\* registry.
C15_Frame == pipe.rclosed' => UNCHANGED <<store, logs, idx, pairs>>

\* C15: after the caller closes the read side the goroutine goes on to end
\* and to close its watcher, also when the feed follows the sink and has
\* nothing more to deliver; closing the read side changes neither the sink's
\* entries nor the registry.
C15_ReaderCancellation == []C15_NotStuck /\ [][C15_Frame]_vars

----
\* Locking and the frame of the operations (Spec).

\* The positions of StopLogging between taking and releasing the mutex.
StopLockedPcs == {"P_Lookup", "P_Close", "P_Delete", "P_Unlock"}

\* A StopLogging call that holds the mutex, or has released it, has its
\* next step to take whatever the processors are doing; one that waits for
\* the mutex has it as soon as the mutex is free.
C16_StopEnabled ==
    \A t \in Threads :
        /\ pc[t] \in StopLockedPcs \cup {"P_Ret"} => ENABLED StopLogging(t)
        /\ (pc[t] = "P_Lock" /\ mu = 0) => ENABLED StopLogging(t)
        /\ (pc[t] = "P_Unlock" /\ ok[t]) => ~IsOpen(lf[t]) /\ file[t] \notin DOMAIN logs

\* A step of a processor changes nothing a StopLogging call reads.
C16_ProcessorStep ==
    (\E p \in PairIds : procs[p] = "running" /\ procs'[p] = "exited")
        => UNCHANGED <<mu, logs, pc, file, lf, ok>>

\* C16: StopLogging(F) closes the stream, removes logs[F], releases the
\* mutex and returns in every state of the processor of F; none of its
\* steps waits for a step of the processor.
C16_StopDoesNotWait == []C16_StopEnabled /\ [][C16_ProcessorStep]_vars

\* StopLogging is about to return, the stream closed, while the processor of
\* the pair is still running and has not observed the close.
C16_Witness ==
    \E t \in Threads :
        /\ pc[t] = "P_Ret"
        /\ ok[t]
        /\ ~IsOpen(lf[t])
        /\ procs[lf[t]] = "running"

\* The positions at which the next statement is blocking I/O: os.MkdirAll,
\* the construction of the two sinks (with the validation of the options of
\* the remote one), fifo.OpenFifo, and lf.stream.Close().
IoPcs == {"S_Mkdir", "S_NewJson", "S_Validate", "S_NewSplunk", "S_OpenFifo", "P_Close"}

\* C17: no operation performs blocking I/O while it holds the mutex: the
\* mutex is held only over the reads and writes of the maps.
C17_LockScope == \A t \in Threads : mu = t => pc[t] \notin IoPcs

\* The pair p is closed in this step.
Closes(p) == IsOpen(p) /\ pairs'[p].stream = "closed"

C18_CloseState ==
    \A t \in Threads :
        pc[t] \in {"P_Close", "P_Delete"} =>
            /\ mu = t
            /\ file[t] \in DOMAIN logs
            /\ logs[file[t]] = lf[t]
            /\ IsOpen(lf[t]) <=> pc[t] = "P_Close"

C18_CloseStep ==
    \A p \in PairIds :
        /\ Closes(p) =>
              \E t \in Threads :
                  /\ pc[t] = "P_Close" /\ pc'[t] = "P_Delete"
                  /\ lf[t] = p
                  /\ mu = t /\ mu' = t
                  /\ \A q \in PairIds \ {p} : pairs'[q] = pairs[q]
        /\ ~IsOpen(p) => pairs'[p].stream = "closed"

\* C18: a stream is closed only by a StopLogging call that holds the mutex
\* and found the pair in logs under its file, and only while the stream is
\* open; the call removes the entry before it releases the mutex, and a
\* closed stream stays closed: no stream is closed twice.
C18_CloseOnce == []C18_CloseState /\ [][C18_CloseStep]_vars

\* Two overlapping StopLogging calls of the same file: one has closed the
\* stream and is about to return, the other found no entry.
C18_Witness ==
    \E t, u \in Threads :
        /\ t # u
        /\ file[t] = file[u]
        /\ pc[t] = "P_Ret" /\ ok[t] /\ ~IsOpen(lf[t])
        /\ pc[u] = "P_Unlock" /\ ~ok[u]

\* The positions at which a call waits for the mutex, and those at which it
\* holds it.
LockPcs == {"S_Lock1", "S_Lock2", "P_Lock", "R_Lock"}
HeldPcs == {"S_Check", "S_Register", "R_Lookup"} \cup StopLockedPcs

\* The positions of each operation in the order of its statements.
StartOrder == <<"S_Lock1", "S_Check", "S_Mkdir", "S_NewJson", "S_Validate", "S_NewSplunk",
                "S_OpenFifo", "S_Lock2", "S_Register", "S_Go", "S_Ret">>
StopOrder == <<"P_Lock", "P_Lookup", "P_Close", "P_Delete", "P_Unlock", "P_Ret">>
ReadOrder == <<"R_Lock", "R_Lookup", "R_Check", "R_Go", "R_Ret">>
Rank(x) ==
    CHOOSE i \in 1..Len(StartOrder) :
        \E o \in {StartOrder, StopOrder, ReadOrder} : i <= Len(o) /\ o[i] = x

\* A step of the call thread t is in.
ThreadStep(t) == StartLogging(t) \/ StopLogging(t) \/ ReadLogs(t)

\* The mutex is held exactly by a call inside one of its critical sections
\* (never by a call that has returned, is returning or is about to lock),
\* and every call in progress can take its next step, or waits for the mutex
\* while the call that holds it can.
C19_LockState ==
    /\ mu \in {0} \cup Threads
    /\ \A t \in Threads : mu = t <=> pc[t] \in HeldPcs
    /\ \A t \in Threads :
           pc[t] # "idle" =>
               \/ ENABLED ThreadStep(t)
               \/ /\ pc[t] \in LockPcs
                  /\ mu \in Threads \ {t}
                  /\ ENABLED ThreadStep(mu)

\* Every step of a call moves it forward in its operation, and a call ends
\* only from its return.
C19_LockStep ==
    \A t \in Threads :
        (Moves(t) /\ pc[t] # "idle") =>
            IF pc'[t] = "idle"
            THEN pc[t] \in {"S_Ret", "P_Ret", "R_Ret"}
            ELSE Rank(pc'[t]) > Rank(pc[t])

\* C19: every path of the three operations releases the mutex it took,
\* never locks it while holding it and never returns holding it; no call in
\* progress is ever stuck, and each call ends after a bounded number of its
\* own steps.
C19_LockDiscipline == []C19_LockState /\ [][C19_LockStep]_vars

\* StartLogging returns early with the already-exists error, the mutex
\* released, while another call waits to lock it.
C19_Witness ==
    \E t, u \in Threads :
        /\ pc[t] = "S_Ret" /\ err[t] = "AlreadyExists"
        /\ pc[u] \in LockPcs
        /\ mu = 0

\* The map has the same entry, or none, under key k before and after.
SameEntry(m, n, k) ==
    /\ k \in DOMAIN m <=> k \in DOMAIN n
    /\ k \in DOMAIN m => n[k] = m[k]

\* What a step of StopLogging(file[t]) leaves alone.
C20_StopFrame(t) ==
    /\ \A G \in Files \ {file[t]} : SameEntry(logs, logs', G)
    /\ Len(pairs') = Len(pairs)
    /\ \A p \in PairIds :
           \/ pairs'[p] = pairs[p]
           \/ /\ Closes(p)
              /\ file[t] \in DOMAIN logs
              /\ logs[file[t]] = p

\* What a step of StartLogging(file[t], cid[t]) leaves alone.
C20_StartFrame(t) ==
    /\ \A G \in Files \ {file[t]} : SameEntry(logs, logs', G)
    /\ \A c \in Cids \ {cid[t]} : SameEntry(idx, idx', c)
    /\ Len(pairs') >= Len(pairs)
    /\ \A p \in PairIds : pairs'[p] = pairs[p]

C20_Step ==
    \A t \in Threads :
        Moves(t) =>
            /\ pc[t] \in StopPcs => C20_StopFrame(t)
            /\ pc[t] \in StartPcs => C20_StartFrame(t)
            /\ pc[t] \in ReadPcs \cup {"idle"} => UNCHANGED <<logs, idx, pairs>>

\* C20: StopLogging(F) leaves every entry of logs under another file as it
\* is and closes no stream but that of logs[F]; ReadLogs changes neither
\* map and closes no stream; StartLogging(F, meta) changes no entry but
\* logs[F] and idx[meta.ContainerID] and no existing pair.
C20_Frame == [][C20_Step]_vars

\* StopLogging of one file has closed its stream and removed its entry while
\* the entry of the other file is registered and its stream open.
C20_Witness ==
    \E t \in Threads :
        /\ pc[t] = "P_Unlock"
        /\ ok[t]
        /\ ~IsOpen(lf[t])
        /\ \E G \in DOMAIN logs : G # file[t] /\ IsOpen(logs[G])

====
